---- MODULE Spec2Model ----
(***************************************************************************)
(* habitist (src/habits.py): the habit counters kept in Todoist notes.     *)
(*                                                                         *)
(* Texts are sequences of one-character strings, so that the regular       *)
(* expressions, str.split, str.startswith, `in` and str.format of the      *)
(* source are computed character by character.                             *)
(***************************************************************************)
EXTENDS Integers, Sequences, FiniteSets, TLC

\* Number of runs of main() in a behaviour.
MaxRuns == 3
\* Number of calendar days the host clock can show.
NumDays == 3

VARIABLES
    pc,             \* position of the process: "idle", "ready", "failed"
    remote,         \* the service's state: items, notes, labels, user
    state,          \* self.api.state, the local copy filled by sync()
    queue,          \* commands staged by the client, sent by commit()
    habit_label_id, \* self.habit_label_id
    habits,         \* self.habits: indexes into state.items
    idx,            \* position of the loop of update_habit in self.habits
    now,            \* host clock: day number on the calendar
    today,          \* self.today
    weekstart,      \* self.weekstart
    off_day,        \* self.off_day
    runs,           \* runs of main() started so far
    commits,        \* calls of api.commit() in the current run
    hits,           \* history: per item, hit runs since its last miss that
                    \* was not on a day off
    counted,        \* history: the items processed by a hit or by a miss
                    \* that was not on a day off
    fetched,        \* history: the service's state as the client last got
                    \* it, from sync() or from the answer to commit()
    prev            \* history: the committed run before this one, when it
                    \* ran on the same date and sync() got the service's
                    \* state as it left it: the notes it had fetched and the
                    \* items it took as hits (n = 0: there is no such run)

vars == <<pc, remote, state, queue, habit_label_id, habits, idx, now, today,
          weekstart, off_day, runs, commits, hits, counted, fetched,
          prev>>

-----------------------------------------------------------------------------
(* Texts *)

Digit == <<"0", "1", "2", "3", "4", "5", "6", "7", "8", "9">>

IsDigit(c) == \E i \in 1..10 : Digit[i] = c

DigitVal(c) == (CHOOSE i \in 1..10 : Digit[i] = c) - 1

\* '{}'.format(n) for an int n >= 0
RECURSIVE Format(_)
Format(n) ==
    IF n < 10 THEN <<Digit[n + 1]>>
    ELSE Format(n \div 10) \o <<Digit[(n % 10) + 1]>>

\* int(s) for a text of digits
RECURSIVE ParseInt(_)
ParseInt(s) ==
    IF s = <<>> THEN 0
    ELSE ParseInt(SubSeq(s, 1, Len(s) - 1)) * 10 + DigitVal(s[Len(s)])

\* s.startswith(p)
StartsWith(s, p) == Len(s) >= Len(p) /\ SubSeq(s, 1, Len(p)) = p

\* sub in s
Contains(s, sub) ==
    \E i \in 0..(Len(s) - Len(sub)) : SubSeq(s, i + 1, i + Len(sub)) = sub

\* s.split(sep)[0]
RECURSIVE SplitFirst(_, _)
SplitFirst(s, sep) ==
    IF Len(s) < Len(sep) THEN s
    ELSE IF SubSeq(s, 1, Len(sep)) = sep THEN <<>>
    ELSE <<Head(s)>> \o SplitFirst(Tail(s), sep)

\* what follows the first sep in s (s contains sep)
AfterFirst(s, sep) ==
    SubSeq(s, Len(SplitFirst(s, sep)) + Len(sep) + 1, Len(s))

\* s.split(sep)[1]
SplitSecond(s, sep) == SplitFirst(AfterFirst(s, sep), sep)

\* the longest run of digits s begins with
RECURSIVE TakeDigits(_)
TakeDigits(s) ==
    IF s # <<>> /\ IsDigit(Head(s))
    THEN <<Head(s)>> \o TakeDigits(Tail(s))
    ELSE <<>>

DropDigits(s) == SubSeq(s, Len(TakeDigits(s)) + 1, Len(s))

\* re.search(r'(\d+)', s): group 1, or <<>> for None
RECURSIVE SearchNum(_)
SearchNum(s) ==
    IF s = <<>> THEN <<>>
    ELSE IF IsDigit(Head(s)) THEN TakeDigits(s)
    ELSE SearchNum(Tail(s))

\* re.sub(r'(\d+)', repl, s)
RECURSIVE SubNum(_, _)
SubNum(repl, s) ==
    IF s = <<>> THEN <<>>
    ELSE IF IsDigit(Head(s)) THEN repl \o SubNum(repl, DropDigits(s))
    ELSE <<Head(s)>> \o SubNum(repl, Tail(s))

\* r'(\d+)\/(\d+)' matches at the start of s
FracAt(s) ==
    LET r == DropDigits(s)
    IN  /\ s # <<>>
        /\ IsDigit(Head(s))
        /\ Len(r) >= 2
        /\ r[1] = "/"
        /\ IsDigit(r[2])

\* re.search(r'(\d+)\/(\d+)', s): <<group 1, group 2>>, or <<>> for None
RECURSIVE SearchFrac(_)
SearchFrac(s) ==
    IF s = <<>> THEN <<>>
    ELSE IF FracAt(s)
         THEN <<TakeDigits(s), TakeDigits(Tail(DropDigits(s)))>>
    ELSE IF IsDigit(Head(s)) THEN SearchFrac(DropDigits(s))
    ELSE SearchFrac(Tail(s))

\* re.sub(r'(\d+)\/(\d+)', repl, s)
RECURSIVE SubFrac(_, _)
SubFrac(repl, s) ==
    IF s = <<>> THEN <<>>
    ELSE IF FracAt(s)
         THEN repl \o SubFrac(repl, DropDigits(Tail(DropDigits(s))))
    ELSE IF IsDigit(Head(s))
         THEN TakeDigits(s) \o SubFrac(repl, DropDigits(s))
    ELSE <<Head(s)>> \o SubFrac(repl, Tail(s))

\* re.sub(r'(\d+)\%', repl, s)
RECURSIVE SubPct(_, _)
SubPct(repl, s) ==
    IF s = <<>> THEN <<>>
    ELSE IF IsDigit(Head(s))
         THEN LET r == DropDigits(s)
              IN  IF r # <<>> /\ Head(r) = "%"
                  THEN repl \o SubPct(repl, Tail(r))
                  ELSE TakeDigits(s) \o SubPct(repl, r)
    ELSE <<Head(s)>> \o SubPct(repl, Tail(s))

SummaryPrefix == <<"S", "u", "m", "m", "a", "r", "y", ":">>
WeeklyPrefix == <<"W", "e", "e", "k", "l", "y", ":">>
StreakPrefix == <<"S", "t", "r", "e", "a", "k", ":">>

ZeroSummary == SummaryPrefix \o <<" ", "0", "/", "0", " ", "|", " ", "0", "%">>
ZeroWeekly == WeeklyPrefix \o <<" ", "0", "/", "0">>
ZeroStreak == StreakPrefix \o <<" ", "0", " ", "d", "a", "y", "s">>

Separator == <<" ", "|", "|", " ">>

-----------------------------------------------------------------------------
(* The host clock and the service's calendar *)

Days == 0..(NumDays - 1)

\* now.strftime(TODOIST_DATE_FORMAT): day 0 is Sunday 2020-01-05
DateStr(d) ==
    <<"2", "0", "2", "0", "-", "0", "1", "-">>
        \o (IF 5 + d < 10 THEN <<"0">> ELSE <<>>) \o Format(5 + d)

\* datetime.weekday(now): 0 is Monday, 6 is Sunday
Weekday(d) == (6 + d) % 7

TimeOfDay == <<"0", "9", ":", "3", "0", ":", "0", "0">>

-----------------------------------------------------------------------------
(* The client library: every call changes the local state and stages a    *)
(* command. w is [items, notes, queue, err]; err is a raised exception.   *)

Raise(w) == [w EXCEPT !.err = TRUE]

\* api.notes.add(item_id, content): the new note's position in w.notes
notes_add(w, item_id, content) ==
    LET id == Len(w.notes) + 1
    IN  [w EXCEPT
            !.notes = Append(@, [id |-> id, item_id |-> item_id,
                                 content |-> content]),
            !.queue = Append(@, [type |-> "note_add", id |-> id,
                                 item_id |-> item_id, args |-> content])]

\* note.update(content=text), for the note at position k
note_update(w, k, text) ==
    [w EXCEPT
        !.notes[k].content = text,
        !.queue = Append(@, [type |-> "note_update", id |-> w.notes[k].id,
                             item_id |-> w.notes[k].item_id, args |-> text])]

\* item.update(content=text), for the item at position i
item_update(w, i, text) ==
    [w EXCEPT
        !.items[i].content = text,
        !.queue = Append(@, [type |-> "item_update", id |-> w.items[i].id,
                             item_id |-> w.items[i].id, args |-> text])]

\* item.update_date_complete(due=due), for the item at position i
item_update_date_complete(w, i, due) ==
    [w EXCEPT
        !.items[i].due = due,
        !.queue = Append(@, [type |-> "item_update_date_complete",
                             id |-> w.items[i].id,
                             item_id |-> w.items[i].id, args |-> due])]

-----------------------------------------------------------------------------
(* class Task. t is [item, summary, week, streak]: positions in w.items   *)
(* and w.notes.                                                           *)

\* the notes update_habit hands to Task: those of the item
NotesOf(w, i) ==
    {k \in 1..Len(w.notes) : w.notes[k].item_id = w.items[i].id}

\* the last note among ks whose content starts with prefix; 0 for None
LastNote(w, ks, prefix) ==
    LET S == {k \in ks : StartsWith(w.notes[k].content, prefix)}
    IN  IF S = {} THEN 0 ELSE CHOOSE k \in S : \A j \in S : j <= k

\* parse_notes that adds a Streak note whether or not there is one
parse_notes_AddStreak(w, i, ks) ==
    LET summary == LastNote(w, ks, SummaryPrefix)
        week == LastNote(w, ks, WeeklyPrefix)
        w1 == IF summary = 0
              THEN notes_add(w, w.items[i].id, ZeroSummary) ELSE w
        w2 == IF week = 0
              THEN notes_add(w1, w.items[i].id, ZeroWeekly) ELSE w1
        w3 == notes_add(w2, w.items[i].id, ZeroStreak)
    IN  [w |-> w3,
         task |-> [item |-> i,
                   summary |-> IF summary = 0 THEN Len(w1.notes) ELSE summary,
                   week |-> IF week = 0 THEN Len(w2.notes) ELSE week,
                   streak |-> Len(w3.notes)]]

parse_notes(w, i, ks) ==
    LET summary == LastNote(w, ks, SummaryPrefix)
        week == LastNote(w, ks, WeeklyPrefix)
        streak == LastNote(w, ks, StreakPrefix)
        w1 == IF summary = 0
              THEN notes_add(w, w.items[i].id, ZeroSummary) ELSE w
        w2 == IF week = 0
              THEN notes_add(w1, w.items[i].id, ZeroWeekly) ELSE w1
        w3 == IF streak = 0
              THEN notes_add(w2, w.items[i].id, ZeroStreak) ELSE w2
    IN  [w |-> w3,
         task |-> [item |-> i,
                   summary |-> IF summary = 0 THEN Len(w1.notes) ELSE summary,
                   week |-> IF week = 0 THEN Len(w2.notes) ELSE week,
                   streak |-> IF streak = 0 THEN Len(w3.notes) ELSE streak]]


\* update_content without the split: the old suffix is kept
update_content_Whole(w, t, content) ==
    item_update(w, t.item, w.items[t.item].content \o Separator \o content)

update_content(w, t, content) ==
    LET details == SplitFirst(w.items[t.item].content, Separator)
        text == details \o Separator \o content
    IN  item_update(w, t.item, text)

\* increase_streak that leaves the item's content alone
increase_streak_NoContent(w, t) ==
    LET content == w.notes[t.streak].content
        res == SearchNum(content)
    IN  IF res = <<>> THEN Raise(w)
        ELSE note_update(w, t.streak,
                         SubNum(Format(ParseInt(res) + 1), content))

increase_streak(w, t) ==
    LET content == w.notes[t.streak].content
        res == SearchNum(content)
    IN  IF res = <<>> THEN Raise(w)
        ELSE LET days == Format(ParseInt(res) + 1)
                 text == SubNum(days, content)
             IN  update_content(note_update(w, t.streak, text), t, text)


\* reset_streak that leaves the count as it is
reset_streak_Keep(w, t) ==
    LET text == w.notes[t.streak].content
    IN  update_content(note_update(w, t.streak, text), t, text)

reset_streak(w, t) ==
    LET days == Format(0)
        text == SubNum(days, w.notes[t.streak].content)
    IN  update_content(note_update(w, t.streak, text), t, text)


\* update_week that never resets
update_week_NoReset(w, t, n, ws) ==
    LET content == w.notes[t.week].content
        res == SearchFrac(content)
    IN  IF res = <<>> THEN Raise(w)
        ELSE LET days == Format(ParseInt(res[1]) + n) \o <<"/">>
                             \o Format(ParseInt(res[2]) + 1)
             IN  note_update(w, t.week, SubFrac(days, content))

\* update_week that does not count the day in the total
update_week_KeepTotal(w, t, n, ws) ==
    LET content == w.notes[t.week].content
        res == SearchFrac(content)
    IN  IF ws
        THEN LET days == Format(n) \o <<"/">> \o Format(1)
             IN  note_update(w, t.week, SubFrac(days, content))
        ELSE IF res = <<>> THEN Raise(w)
        ELSE LET days == Format(ParseInt(res[1]) + n) \o <<"/">>
                             \o Format(ParseInt(res[2]))
             IN  note_update(w, t.week, SubFrac(days, content))

update_week(w, t, n, ws) ==
    LET content == w.notes[t.week].content
        res == SearchFrac(content)
    IN  IF ws
        THEN LET days == Format(n) \o <<"/">> \o Format(1)
             IN  note_update(w, t.week, SubFrac(days, content))
        ELSE IF res = <<>> THEN Raise(w)
        ELSE LET cur == ParseInt(res[1])
                 tot == ParseInt(res[2])
                 days == Format(cur + n) \o <<"/">> \o Format(tot + 1)
             IN  note_update(w, t.week, SubFrac(days, content))


\* update_summary that does not count the day in the total
update_summary_KeepTotal(w, t, n) ==
    LET content == w.notes[t.summary].content
        res == SearchFrac(content)
    IN  IF res = <<>> THEN Raise(w)
        ELSE LET cur == ParseInt(res[1])
                 tot == ParseInt(res[2])
                 days == Format(cur + n) \o <<"/">> \o Format(tot)
                 percentage ==
                     Format(IF tot = 0 THEN 0 ELSE (100 * (cur + n)) \div tot)
                         \o <<"%">>
                 text == SubPct(percentage, SubFrac(days, content))
             IN  note_update(w, t.summary, text)

\* update_summary that leaves the percentage as it was
update_summary_StalePercent(w, t, n) ==
    LET content == w.notes[t.summary].content
        res == SearchFrac(content)
    IN  IF res = <<>> THEN Raise(w)
        ELSE LET days == Format(ParseInt(res[1]) + n) \o <<"/">>
                             \o Format(ParseInt(res[2]) + 1)
             IN  note_update(w, t.summary, SubFrac(days, content))

update_summary(w, t, n) ==
    LET content == w.notes[t.summary].content
        res == SearchFrac(content)
    IN  IF res = <<>> THEN Raise(w)
        ELSE LET cur == ParseInt(res[1])
                 tot == ParseInt(res[2])
                 days == Format(cur + n) \o <<"/">> \o Format(tot + 1)
                 percentage ==
                     Format((100 * (cur + n)) \div (tot + 1)) \o <<"%">>
                 text == SubPct(percentage, SubFrac(days, content))
             IN  note_update(w, t.summary, text)

due_date(w, t) == w.items[t.item].due.date

\* is_due with the test the other way round
is_due_Inverted(w, t, day) == Contains(due_date(w, t), day)

is_due(w, t, day) == ~Contains(due_date(w, t), day)


\* increase that forgets the Weekly note
increase_SkipWeek(w, t, ws) ==
    LET w1 == increase_streak(w, t)
    IN  IF w1.err THEN w1 ELSE update_summary(w1, t, 1)

\* increase that forgets the Summary note
increase_SkipSummary(w, t, ws) ==
    LET w1 == increase_streak(w, t)
    IN  IF w1.err THEN w1 ELSE update_week(w1, t, 1, ws)

increase(w, t, ws) ==
    LET w1 == increase_streak(w, t)
        w2 == IF w1.err THEN w1 ELSE update_summary(w1, t, 1)
    IN  IF w2.err THEN w2 ELSE update_week(w2, t, 1, ws)


\* no_change that resets on a day off too
no_change_IgnoreDayOff(w, t, day, ws, day_off) ==
    LET w1 == reset_streak(w, t)
        w2 == IF w1.err THEN w1 ELSE update_summary(w1, t, 0)
        w3 == IF w2.err THEN w2 ELSE update_week(w2, t, 0, ws)
        date == w.items[t.item].due.date
        new == IF Contains(date, <<"T">>)
               THEN day \o <<"T">> \o SplitSecond(date, <<"T">>)
               ELSE day
    IN  IF w3.err THEN w3
        ELSE item_update_date_complete(
                 w3, t.item,
                 [string |-> w.items[t.item].due.string, date |-> new])

\* no_change that does not hand weekstart to update_week
no_change_NoWeekstart(w, t, day, ws, day_off) ==
    LET w1 == IF day_off THEN w ELSE reset_streak(w, t)
        w2 == IF day_off \/ w1.err THEN w1 ELSE update_summary(w1, t, 0)
        w3 == IF day_off \/ w2.err THEN w2 ELSE update_week(w2, t, 0, FALSE)
        date == w.items[t.item].due.date
        new == IF Contains(date, <<"T">>)
               THEN day \o <<"T">> \o SplitSecond(date, <<"T">>)
               ELSE day
    IN  IF w3.err THEN w3
        ELSE item_update_date_complete(
                 w3, t.item,
                 [string |-> w.items[t.item].due.string, date |-> new])

\* no_change that drops the time of day
no_change_DropTime(w, t, day, ws, day_off) ==
    LET w1 == IF day_off THEN w ELSE reset_streak(w, t)
        w2 == IF day_off \/ w1.err THEN w1 ELSE update_summary(w1, t, 0)
        w3 == IF day_off \/ w2.err THEN w2 ELSE update_week(w2, t, 0, ws)
    IN  IF w3.err THEN w3
        ELSE item_update_date_complete(
                 w3, t.item,
                 [string |-> w.items[t.item].due.string, date |-> day])

\* no_change that leaves the item on the date it was due
no_change_KeepDate(w, t, day, ws, day_off) ==
    LET w1 == IF day_off THEN w ELSE reset_streak(w, t)
        w2 == IF day_off \/ w1.err THEN w1 ELSE update_summary(w1, t, 0)
        w3 == IF day_off \/ w2.err THEN w2 ELSE update_week(w2, t, 0, ws)
    IN  IF w3.err THEN w3
        ELSE item_update_date_complete(
                 w3, t.item,
                 [string |-> w.items[t.item].due.string,
                  date |-> w.items[t.item].due.date])

no_change(w, t, day, ws, day_off) ==
    LET w1 == IF day_off THEN w ELSE reset_streak(w, t)
        w2 == IF day_off \/ w1.err THEN w1 ELSE update_summary(w1, t, 0)
        w3 == IF day_off \/ w2.err THEN w2 ELSE update_week(w2, t, 0, ws)
        date == w.items[t.item].due.date
        new == IF Contains(date, <<"T">>)
               THEN day \o <<"T">> \o SplitSecond(date, <<"T">>)
               ELSE day
    IN  IF w3.err THEN w3
        ELSE item_update_date_complete(
                 w3, t.item,
                 [string |-> w.items[t.item].due.string, date |-> new])

-----------------------------------------------------------------------------
(* The service *)

\* the item, or the note, with an id
PosOf(seq, id) == CHOOSE k \in 1..Len(seq) : seq[k].id = id

\* one staged command, as the service carries it out
ApplyCommand(r, cmd) ==
    IF cmd.type = "note_add"
    THEN [r EXCEPT !.notes = Append(@, [id |-> cmd.id,
                                        item_id |-> cmd.item_id,
                                        content |-> cmd.args])]
    ELSE IF cmd.type = "note_update"
    THEN [r EXCEPT !.notes[PosOf(r.notes, cmd.id)].content = cmd.args]
    ELSE IF cmd.type = "item_update"
    THEN [r EXCEPT !.items[PosOf(r.items, cmd.id)].content = cmd.args]
    ELSE [r EXCEPT !.items[PosOf(r.items, cmd.id)].due = cmd.args]

RECURSIVE ApplyQueue(_, _)
ApplyQueue(r, q) ==
    IF q = <<>> THEN r ELSE ApplyQueue(ApplyCommand(r, Head(q)), Tail(q))

\* a recurring item: the service's scheduler moves its due date when the
\* user completes it
Recurring(item) == item.due.string # "someday"

\* the due date of an item the scheduler moved to day d
Scheduled(item, d) ==
    IF Recurring(item)
    THEN [item EXCEPT !.due.date =
              IF Contains(@, <<"T">>)
              THEN DateStr(d) \o <<"T">> \o SplitSecond(@, <<"T">>)
              ELSE DateStr(d)]
    ELSE item

-----------------------------------------------------------------------------
(* class Todoist *)

\* [label['id'] for label in labels if label['name'] == 'habit']
RECURSIVE habit_label_ids(_)
habit_label_ids(labels) ==
    IF labels = <<>> THEN <<>>
    ELSE (IF Head(labels).name = "habit" THEN <<Head(labels).id>> ELSE <<>>)
             \o habit_label_ids(Tail(labels))

\* get_habits without the test of the label
get_habits_All(items, label, k) == [j \in 1..Len(items) |-> j]

\* positions in items of the items carrying the label, in order
RECURSIVE get_habits(_, _, _)
get_habits(items, label, k) ==
    IF k > Len(items) THEN <<>>
    ELSE (IF label \in items[k].labels THEN <<k>> ELSE <<>>)
             \o get_habits(items, label, k + 1)

\* no committed run to compare with
NoPrev == [n |-> 0, notes |-> <<>>, hit |-> {}, today |-> <<>>]

\* assert (len(habit_label_ids)==1)
\* the assertion taken as: there is a habit label
label_ok_First(ids) == Len(ids) >= 1

label_ok(ids) == Len(ids) = 1

\* the flag for the week starting today
get_weekstart_Today(user, d) == Weekday(d) = (user.start_day - 1) % 7

get_weekstart(user, d) == Weekday(d) = user.start_day % 7

get_off_day(user, d) == Weekday(d) \in {i % 7 : i \in user.days_off}

\* Todoist(): sync, the habit label, the habits, the date and the flags
TodoistInit ==
    /\ pc \in {"idle", "failed"}
    /\ runs < MaxRuns
    /\ \E d \in Days, move \in [1..Len(remote.items) -> Days] :
        LET got ==
                [remote EXCEPT !.items =
                    [k \in 1..Len(remote.items) |->
                        Scheduled(remote.items[k], move[k])]]
            ids == habit_label_ids(got.labels)
        IN  /\ d >= now
            /\ \A k \in 1..Len(remote.items) :
                   ~Recurring(remote.items[k]) => move[k] = 0
            /\ now' = d
            /\ remote' = got
            /\ state' = got
            /\ fetched' = got
            /\ prev' = IF got = remote /\ DateStr(d) = prev.today
                       THEN prev ELSE NoPrev
            /\ IF label_ok(ids)
               THEN /\ habit_label_id' = ids[1]
                    /\ habits' = get_habits(got.items, ids[1], 1)
                    /\ weekstart' = get_weekstart(got.user, d)
                    /\ off_day' = get_off_day(got.user, d)
                    /\ today' = DateStr(d)
                    /\ pc' = "ready"
               ELSE /\ pc' = "failed"
                    /\ UNCHANGED <<habit_label_id, habits, weekstart,
                                   off_day, today>>
    /\ queue' = <<>>
    /\ idx' = 1
    /\ runs' = runs + 1
    /\ commits' = 0
    /\ UNCHANGED <<hits, counted>>

\* one turn of the loop of update_habit
ProcessTask ==
    /\ pc = "ready"
    /\ idx <= Len(habits)
    /\ LET i == habits[idx]
           w0 == [items |-> state.items, notes |-> state.notes,
                  queue |-> queue, err |-> FALSE]
           made == parse_notes(w0, i, NotesOf(w0, i))
           task == made.task
           miss == is_due(made.w, task, today)
           w1 == IF miss
                 THEN no_change(made.w, task, today, weekstart, off_day)
                 ELSE increase(made.w, task, weekstart)
       IN  /\ state' = [state EXCEPT !.items = w1.items, !.notes = w1.notes]
           /\ queue' = w1.queue
           /\ pc' = IF w1.err THEN "failed" ELSE "ready"
           /\ idx' = IF w1.err THEN idx ELSE idx + 1
           /\ hits' = [hits EXCEPT ![i] =
                          IF w1.err THEN @
                          ELSE IF ~miss THEN @ + 1
                          ELSE IF off_day THEN @ ELSE 0]
           /\ counted' = IF w1.err \/ (miss /\ off_day) THEN counted
                         ELSE counted \cup {i}
    /\ UNCHANGED <<remote, habit_label_id, habits, now, today, weekstart,
                   off_day, runs, commits, fetched, prev>>

\* self.api.commit() at the end of each turn of the loop
Commit_InLoop ==
    /\ pc = "ready"
    /\ idx > 1
    /\ remote' = ApplyQueue(remote, queue)
    /\ queue' = <<>>
    /\ commits' = commits + 1
    /\ pc' = IF idx > Len(habits) THEN "idle" ELSE "ready"
    /\ fetched' = remote'
    /\ UNCHANGED <<state, habit_label_id, habits, idx, now, today, weekstart,
                   off_day, runs, hits, counted, prev>>

\* self.api.commit(), after the loop
Commit ==
    /\ pc = "ready"
    /\ idx > Len(habits)
    /\ remote' = ApplyQueue(remote, queue)
    /\ UNCHANGED state
    /\ queue' = <<>>
    /\ commits' = commits + 1
    /\ pc' = "idle"
    /\ fetched' = remote'
    /\ prev' = [n |-> 1, notes |-> remote.notes,
                hit |-> {habits[k] : k \in {j \in 1..Len(habits) :
                            Contains(remote.items[habits[j]].due.date,
                                     today)}},
                today |-> today]
    /\ UNCHANGED <<habit_label_id, habits, idx, now, today, weekstart,
                   off_day, runs, hits, counted>>

Next == TodoistInit \/ ProcessTask \/ Commit

-----------------------------------------------------------------------------
(* Initial states *)

Labels == <<[id |-> 7, name |-> "habit"], [id |-> 8, name |-> "work"]>>

Users ==
    {[start_day |-> s, days_off |-> o] : s \in {1, 7}, o \in {{1}, {6, 7}}}

RunTitle == <<"R", "u", "n">>
MilkTitle == <<"M", "i", "l", "k">>
ReadTitle == <<"R", "e", "a", "d">>

Due(string, d, timed) ==
    [string |-> string,
     date |-> DateStr(d) \o (IF timed THEN <<"T">> \o TimeOfDay ELSE <<>>)]

\* a habit item, an item without the habit label and, with two habits, a
\* second habit item
Items(content, timed, two) ==
    <<[id |-> 1, content |-> content, labels |-> {7},
       due |-> Due("every day", 0, timed)],
      [id |-> 2, content |-> MilkTitle, labels |-> {8},
       due |-> Due("someday", 0, FALSE)]>>
    \o (IF two
        THEN <<[id |-> 3, content |-> ReadTitle, labels |-> {7, 8},
                due |-> Due("every day", 0, FALSE)]>>
        ELSE <<>>)

Note(id, item_id, content) ==
    [id |-> id, item_id |-> item_id, content |-> content]

\* no counter note yet, only the Summary note, or the three zero notes
ZeroNotes ==
    {<<>>,
     <<Note(1, 1, ZeroSummary)>>,
     <<Note(1, 1, ZeroSummary), Note(2, 1, ZeroWeekly),
       Note(3, 1, ZeroStreak)>>}

InitWith(remotes) ==
    /\ remote \in remotes
    /\ state = remote
    /\ pc = "idle"
    /\ queue = <<>>
    /\ habit_label_id = 0
    /\ habits = <<>>
    /\ idx = 1
    /\ now = 0
    /\ today = DateStr(0)
    /\ weekstart = FALSE
    /\ off_day = FALSE
    /\ runs = 0
    /\ commits = 0
    /\ hits = [i \in 1..Len(remote.items) |-> 0]
    /\ counted = {}
    /\ fetched = remote
    /\ prev = NoPrev

\* one habit item with each choice of notes, or two habit items without notes
Init ==
    InitWith({[items |-> Items(RunTitle, timed, FALSE), notes |-> ns,
               labels |-> Labels, user |-> u] :
                 timed \in BOOLEAN, ns \in ZeroNotes, u \in Users}
             \cup
             {[items |-> Items(RunTitle, TRUE, TRUE), notes |-> <<>>,
               labels |-> Labels,
               user |-> [start_day |-> 7, days_off |-> {6, 7}]]})

Spec == Init /\ [][Next]_vars

\* the texts of the three notes with given counts
SummaryText(a, b, p) ==
    SummaryPrefix \o <<" ">> \o Format(a) \o <<"/">> \o Format(b)
        \o <<" ", "|", " ">> \o Format(p) \o <<"%">>

WeeklyText(a, b) == WeeklyPrefix \o <<" ">> \o Format(a) \o <<"/">> \o Format(b)

StreakText(n) == StreakPrefix \o <<" ">> \o Format(n) \o <<" ", "d", "a", "y", "s">>

AnySummary == {<<0, 0, 0>>, <<3, 4, 75>>, <<3, 4, 12>>, <<9, 9, 100>>}
AnyWeekly == {<<0, 0>>, <<6, 7>>, <<9, 9>>}
AnyStreak == {0, 5, 99}

\* a habit item whose notes hold any counts
InitAny ==
    InitWith({[items |-> Items(c, timed, FALSE),
               notes |-> <<Note(1, 1, SummaryText(s[1], s[2], s[3])),
                           Note(2, 1, WeeklyText(w[1], w[2])),
                           Note(3, 1, StreakText(n))>>,
               labels |-> Labels, user |-> u] :
                 c \in {RunTitle, RunTitle \o Separator \o StreakText(5)},
                 timed \in BOOLEAN, s \in AnySummary, w \in AnyWeekly,
                 n \in AnyStreak, u \in Users})

SpecAny == InitAny /\ [][Next]_vars

\* notes that carry the prefix of their kind and no count
None == <<" ", "n", "o", "n", "e">>
BadSummary == SummaryPrefix \o None
BadWeekly == WeeklyPrefix \o None
BadStreak == StreakPrefix \o None

\* the three notes of an item, the first at position k
Notes(k, item_id, summary, week, streak) ==
    <<Note(k, item_id, summary), Note(k + 1, item_id, week),
      Note(k + 2, item_id, streak)>>

NoHabitLabel == <<[id |-> 8, name |-> "work"]>>
TwoHabitLabels ==
    <<[id |-> 7, name |-> "habit"], [id |-> 9, name |-> "habit"],
      [id |-> 8, name |-> "work"]>>

\* a habit item with one note that cannot be parsed; two habit items, the
\* second with a Summary note that cannot be parsed; no label, or two
\* labels, named habit
InitWild ==
    InitWith({[items |-> Items(RunTitle, FALSE, FALSE), notes |-> ns,
               labels |-> Labels, user |-> u] :
                 ns \in {Notes(1, 1, BadSummary, ZeroWeekly, ZeroStreak),
                         Notes(1, 1, ZeroSummary, BadWeekly, ZeroStreak),
                         Notes(1, 1, ZeroSummary, ZeroWeekly, BadStreak)},
                 u \in Users}
             \cup
             {[items |-> Items(RunTitle, TRUE, TRUE),
               notes |-> Notes(1, 1, ZeroSummary, ZeroWeekly, ZeroStreak)
                         \o Notes(4, 3, BadSummary, ZeroWeekly, ZeroStreak),
               labels |-> Labels, user |-> u] : u \in Users}
             \cup
             {[items |-> Items(RunTitle, FALSE, FALSE),
               notes |-> Notes(1, 1, ZeroSummary, ZeroWeekly, ZeroStreak),
               labels |-> ls,
               user |-> [start_day |-> 1, days_off |-> {6, 7}]] :
                 ls \in {NoHabitLabel, TwoHabitLabels}})

SpecWild == InitWild /\ [][Next]_vars

\* Todoist.get_datetime alone, on the state sync() left
get_datetime ==
    /\ pc = "idle"
    /\ weekstart' = get_weekstart(state.user, now)
    /\ off_day' = get_off_day(state.user, now)
    /\ today' = DateStr(now)
    /\ pc' = "dated"
    /\ UNCHANGED <<remote, state, queue, habit_label_id, habits, idx, now,
                   runs, commits, hits, counted, fetched, prev>>

\* every start day, every set of days off
AllUsers ==
    {[start_day |-> s, days_off |-> o] : s \in 1..7, o \in SUBSET (1..7)}

\* every user profile on every day of a week
InitFlags ==
    /\ remote \in {[items |-> Items(RunTitle, FALSE, FALSE), notes |-> <<>>,
                     labels |-> Labels, user |-> u] : u \in AllUsers}
    /\ now \in 0..6
    /\ state = remote
    /\ fetched = remote
    /\ pc = "idle"
    /\ queue = <<>>
    /\ habit_label_id = 0
    /\ habits = <<>>
    /\ idx = 1
    /\ today = DateStr(0)
    /\ weekstart = FALSE
    /\ off_day = FALSE
    /\ runs = 0
    /\ commits = 0
    /\ hits = [i \in 1..Len(remote.items) |-> 0]
    /\ counted = {}
    /\ prev = NoPrev

SpecFlags == InitFlags /\ [][get_datetime]_vars

-----------------------------------------------------------------------------
(* What the claims read off a state *)

\* update_habit has processed every habit and has not committed yet: remote
\* is the state the run fetched, state what the run made of it
Processed == pc = "ready" /\ idx > Len(habits)

HabitItems == {habits[k] : k \in 1..Len(habits)}

\* the run took the increase branch for item i
Hit(i) == Contains(remote.items[i].due.date, today)

\* the text of item i's note of a kind in st, the zero text if it has none
NoteText(st, i, prefix, zero) ==
    LET k == LastNote(st, NotesOf(st, i), prefix)
    IN  IF k = 0 THEN zero ELSE st.notes[k].content

SummaryOf(st, i) == NoteText(st, i, SummaryPrefix, ZeroSummary)
WeeklyOf(st, i) == NoteText(st, i, WeeklyPrefix, ZeroWeekly)
StreakOf(st, i) == NoteText(st, i, StreakPrefix, ZeroStreak)

\* the counts a text shows
Count(text) == ParseInt(SearchNum(text))
Completed(text) == ParseInt(SearchFrac(text)[1])
Total(text) == ParseInt(SearchFrac(text)[2])
Percent(text) == ParseInt(SearchNum(AfterFirst(text, <<"|">>)))

\* the title each item was created with
Title(i) == IF i = 1 THEN RunTitle ELSE IF i = 2 THEN MilkTitle ELSE ReadTitle

\* the commands of a type staged for item i
Staged(type, i) ==
    {k \in 1..Len(queue) :
        queue[k].type = type /\ queue[k].item_id = state.items[i].id}

-----------------------------------------------------------------------------
(* The claims *)

\* C1: a hit in a run that is not a week-start run raises the Streak days,
\* the Summary completed and total and the Weekly completed and total by
\* exactly 1 each, whatever the counts were before the run.
C1_HitRule ==
    \A i \in HabitItems :
        (Processed /\ Hit(i) /\ ~weekstart) =>
            /\ StreakOf(state, i) = StreakText(Count(StreakOf(remote, i)) + 1)
            /\ Completed(SummaryOf(state, i))
                   = Completed(SummaryOf(remote, i)) + 1
            /\ Total(SummaryOf(state, i)) = Total(SummaryOf(remote, i)) + 1
            /\ WeeklyOf(state, i) =
                   WeeklyText(Completed(WeeklyOf(remote, i)) + 1,
                              Total(WeeklyOf(remote, i)) + 1)

C1_Witness ==
    /\ Processed /\ Hit(1) /\ ~weekstart
    /\ StreakOf(remote, 1) = StreakText(99)
    /\ StreakOf(state, 1) = StreakText(100)
    /\ WeeklyOf(remote, 1) = WeeklyText(6, 7)
    /\ WeeklyOf(state, 1) = WeeklyText(7, 8)
    /\ Completed(SummaryOf(state, 1)) = 4

\* C2: a miss that is not on a day off sets the Streak note to 0 days,
\* whatever the streak was, and rewrites the item's content to its title,
\* the separator and the text of the Streak note.
C2_MissResets ==
    \A i \in HabitItems :
        (Processed /\ ~Hit(i) /\ ~off_day) =>
            /\ StreakOf(state, i) = StreakText(0)
            /\ state.items[i].content
                   = Title(i) \o Separator \o StreakText(0)

C2_Witness ==
    /\ Processed /\ ~Hit(1) /\ ~off_day
    /\ StreakOf(remote, 1) = StreakText(5)
    /\ remote.items[1].content = RunTitle \o Separator \o StreakText(5)
    /\ state.items[1].content = RunTitle \o Separator \o StreakText(0)

\* C3: a miss on a day off leaves the three notes and the content as they
\* were, in a week-start run too, and still reschedules the due date to
\* today.
C3_DayOff ==
    \A i \in HabitItems :
        (Processed /\ ~Hit(i) /\ off_day) =>
            /\ SummaryOf(state, i) = SummaryOf(remote, i)
            /\ WeeklyOf(state, i) = WeeklyOf(remote, i)
            /\ StreakOf(state, i) = StreakOf(remote, i)
            /\ state.items[i].content = remote.items[i].content
            /\ Staged("note_update", i) = {}
            /\ Staged("item_update", i) = {}
            /\ Cardinality(Staged("item_update_date_complete", i)) = 1
            /\ StartsWith(state.items[i].due.date, today)

C3_Witness ==
    /\ Processed /\ ~Hit(1) /\ off_day /\ weekstart
    /\ WeeklyOf(state, 1) = WeeklyText(6, 7)
    /\ StreakOf(state, 1) = StreakText(5)
    /\ ~StartsWith(remote.items[1].due.date, today)
    /\ StartsWith(state.items[1].due.date, today)

\* every Summary and Weekly note of st shows completed <= total
CompletedWithinTotal(st) ==
    \A k \in 1..Len(st.notes) :
        (\/ StartsWith(st.notes[k].content, SummaryPrefix)
         \/ StartsWith(st.notes[k].content, WeeklyPrefix))
            => Completed(st.notes[k].content) <= Total(st.notes[k].content)

\* C4: from the zero notes, whatever the runs were, Summary completed <=
\* Summary total and Weekly completed <= Weekly total in every state.
C4_CompletedWithinTotal ==
    CompletedWithinTotal(state) /\ CompletedWithinTotal(remote)

C4_Witness ==
    /\ pc = "idle"
    /\ SummaryOf(remote, 1) = SummaryText(2, 3, 66)
    /\ WeeklyOf(remote, 1) = WeeklyText(1, 2)

\* C5 as stated: once a run has processed a habit item, its Summary total
\* and its Weekly total are both >= 1.
C5_TotalAfterAnyUpdate ==
    \A i \in HabitItems :
        Processed =>
            /\ Total(SummaryOf(state, i)) >= 1
            /\ Total(WeeklyOf(state, i)) >= 1

\* C5, amended: once a habit item has been processed by a hit or by a miss
\* that was not on a day off, its Summary total and its Weekly total are
\* both >= 1, in the local state and in the committed one; a miss on a day
\* off leaves the totals as they were, 0 included.
C5_TotalAfterCountedUpdate ==
    \A i \in counted :
        /\ Total(SummaryOf(state, i)) >= 1
        /\ Total(WeeklyOf(state, i)) >= 1
        /\ pc = "idle" =>
               /\ Total(SummaryOf(remote, i)) >= 1
               /\ Total(WeeklyOf(remote, i)) >= 1

C5_Witness ==
    /\ Processed /\ 1 \in counted /\ ~Hit(1) /\ off_day
    /\ SummaryOf(state, 1) = SummaryText(0, 1, 0)
    /\ WeeklyOf(state, 1) = WeeklyText(0, 1)

\* C6: update_summary(n) turns 'Summary: a/b | p%' with a <= b into
\* 'Summary: (a+n)/(b+1) | q%' with q = floor(100 * (a+n) / (b+1)), whatever
\* p was; n is 1 for a hit and 0 for a miss that is not on a day off.
C6_UpdateSummary ==
    \A i \in HabitItems :
        (Processed /\ (Hit(i) \/ ~off_day)) =>
            LET old == SummaryOf(remote, i)
                a == Completed(old)
                b == Total(old)
                n == IF Hit(i) THEN 1 ELSE 0
            IN  (old = SummaryText(a, b, Percent(old)) /\ a <= b) =>
                    SummaryOf(state, i) =
                        SummaryText(a + n, b + 1,
                                    (100 * (a + n)) \div (b + 1))

C6_Witness ==
    /\ Processed /\ Hit(1)
    /\ SummaryOf(remote, 1) = SummaryText(3, 4, 75)
    /\ SummaryOf(state, 1) = SummaryText(4, 5, 80)

\* C7: a hit in a week-start run sets the Weekly note to 1/1, whatever the
\* Weekly note showed before.
C7_WeekStartHit ==
    \A i \in HabitItems :
        (Processed /\ Hit(i) /\ weekstart) =>
            WeeklyOf(state, i) = WeeklyText(1, 1)

C7_Witness ==
    /\ Processed /\ Hit(1) /\ weekstart
    /\ WeeklyOf(remote, 1) = WeeklyText(6, 7)
    /\ WeeklyOf(state, 1) = WeeklyText(1, 1)

\* C8 as stated: after every week-start run, each processed habit item's
\* Weekly note reads n/1, n = 1 for a hit and n = 0 for a miss.
C8_WeekStartAlwaysResets ==
    \A i \in HabitItems :
        (Processed /\ weekstart) =>
            WeeklyOf(state, i) = WeeklyText(IF Hit(i) THEN 1 ELSE 0, 1)

\* C8, amended: after a week-start run, a habit item's Weekly note reads n/1
\* (n = 1 for a hit, n = 0 for a miss) when the item was a hit or the run
\* was not on a day off; after a miss on a day off the Weekly note is the
\* one of the week before, unchanged.
C8_WeekStartResets ==
    \A i \in HabitItems :
        (Processed /\ weekstart) =>
            WeeklyOf(state, i) =
                IF Hit(i) THEN WeeklyText(1, 1)
                ELSE IF ~off_day THEN WeeklyText(0, 1)
                ELSE WeeklyOf(remote, i)

C8_Witness ==
    /\ Processed /\ weekstart /\ ~Hit(1) /\ ~off_day
    /\ WeeklyOf(remote, 1) = WeeklyText(9, 9)
    /\ WeeklyOf(state, 1) = WeeklyText(0, 1)

\* C9: from the zero notes, whatever the runs were, the Streak note of an
\* item shows the number of its hit runs since its last miss run that was
\* not on a day off (since the start if it has none).
C9_StreakHistory ==
    \A i \in 1..Len(state.items) : StreakOf(state, i) = StreakText(hits[i])

C9_Witness ==
    /\ Processed /\ ~Hit(1) /\ off_day
    /\ hits[1] = 2
    /\ StreakOf(state, 1) = StreakText(2)

\* the due date no_change asks for, for an item whose due date was date
Rescheduled(date) ==
    IF \E k \in 1..Len(date) : date[k] = "T"
    THEN DateStr(now) \o <<"T">> \o TimeOfDay
    ELSE DateStr(now)

\* C10: on a miss, on a day off or not, the run stages one rewrite of the
\* item's due date: to today's date, followed by T and the time of day the
\* due date had if it had one, with the due string it had.
C10_Reschedule ==
    \A i \in HabitItems :
        (Processed /\ ~Hit(i)) =>
            /\ Cardinality(Staged("item_update_date_complete", i)) = 1
            /\ \A k \in Staged("item_update_date_complete", i) :
                   queue[k].args =
                       [string |-> remote.items[i].due.string,
                        date |-> Rescheduled(remote.items[i].due.date)]

C10_Witness ==
    /\ Processed /\ ~Hit(1) /\ off_day /\ now = 1
    /\ remote.items[1].due.date = DateStr(0) \o <<"T">> \o TimeOfDay
    /\ \E k \in Staged("item_update_date_complete", 1) :
           queue[k].args.date = DateStr(1) \o <<"T">> \o TimeOfDay

\* the notes the committed run before this one had fetched, with the items
Before == [items |-> remote.items, notes |-> prev.notes]

\* C11: update_habit is not idempotent: a second run on the same date, not a
\* week-start run, with nothing changed on the service in between, takes an
\* item that was a hit as a hit again, and leaves Streak, Summary completed
\* and Summary total 2 higher than they were before the first run.
C11_NotIdempotent ==
    \A i \in HabitItems :
        (Processed /\ prev.n = 1 /\ ~weekstart /\ i \in prev.hit) =>
            /\ StreakOf(state, i) = StreakText(Count(StreakOf(Before, i)) + 2)
            /\ Completed(SummaryOf(state, i))
                   = Completed(SummaryOf(Before, i)) + 2
            /\ Total(SummaryOf(state, i)) = Total(SummaryOf(Before, i)) + 2

C11_Witness ==
    /\ Processed /\ prev.n = 1 /\ ~weekstart /\ 1 \in prev.hit
    /\ StreakOf(Before, 1) = StreakText(5)
    /\ StreakOf(state, 1) = StreakText(7)
    /\ SummaryOf(Before, 1) = SummaryText(3, 4, 75)
    /\ SummaryOf(state, 1) = SummaryText(5, 6, 83)

\* a text shows a count, and a text shows a fraction
HasNumber(text) == \E k \in 1..Len(text) : IsDigit(text[k])
HasFraction(text) ==
    \E k \in 1..(Len(text) - 2) :
        IsDigit(text[k]) /\ text[k + 1] = "/" /\ IsDigit(text[k + 2])

\* one of item i's three notes in st does not show its count
Unparsable(st, i) ==
    \/ ~HasFraction(SummaryOf(st, i))
    \/ ~HasFraction(WeeklyOf(st, i))
    \/ ~HasNumber(StreakOf(st, i))

\* C12: when the Summary, Weekly or Streak note of a habit item does not
\* show its count, the run does not get through the loop and commit is not
\* called, on any branch.
C12_UnparsableIsFatal ==
    \A i \in HabitItems :
        Unparsable(fetched, i) => (~Processed /\ commits = 0)

\* C13: commit is called at most once in a run, and only after the loop has
\* taken every habit item; until then, and in a run that fails, nothing has
\* reached the service; what the commit leaves on the service is the whole
\* of what the run computed.
C13_AllOrNothing ==
    /\ commits <= 1
    /\ commits = 1 => (pc = "idle" /\ idx > Len(habits) /\ remote = state)
    /\ pc \in {"ready", "failed"} => (commits = 0 /\ remote = fetched)

C13_Witness ==
    /\ pc = "failed" /\ idx = 2 /\ Len(habits) = 2
    /\ queue # <<>> /\ state # remote
    /\ commits = 0 /\ remote = fetched

\* the labels named habit on the service
HabitLabels == {k \in 1..Len(remote.labels) : remote.labels[k].name = "habit"}

\* C14: when no label, or more than one label, is named habit, the run fails
\* in Todoist(): nothing is staged, the local state is the fetched one, the
\* service's state is untouched and commit is not called.
C14_LabelFatal ==
    Cardinality(HabitLabels) # 1 =>
        /\ pc # "ready"
        /\ queue = <<>>
        /\ state = fetched
        /\ remote = fetched
        /\ commits = 0

C14_Witness ==
    /\ Cardinality(HabitLabels) = 2
    /\ pc = "failed" /\ runs = 2

\* the weekday of the day before day d, as the service numbers weekdays:
\* 1 is Monday, 7 is Sunday (day 0 is a Sunday)
Yesterday(d) == ((d + 5) % 7) + 1

\* C15: for every start day in 1..7, every set of days off and every
\* weekday of the host, weekstart is true exactly when the day before was
\* the user's week-start weekday, and off_day exactly when the day before
\* was one of the user's days off.
C15_Flags ==
    pc = "dated" =>
        /\ weekstart = (Yesterday(now) = state.user.start_day)
        /\ off_day = (Yesterday(now) \in state.user.days_off)

C15_Witness ==
    /\ pc = "dated" /\ now = 1
    /\ state.user = [start_day |-> 7, days_off |-> {3, 7}]
    /\ weekstart /\ off_day
    /\ today = <<"2", "0", "2", "0", "-", "0", "1", "-", "0", "6">>

Kinds == {SummaryPrefix, WeeklyPrefix, StreakPrefix}

ZeroText(kind) ==
    IF kind = SummaryPrefix THEN ZeroSummary
    ELSE IF kind = WeeklyPrefix THEN ZeroWeekly ELSE ZeroStreak

\* item i's notes of a kind in st
OfKind(st, i, kind) ==
    {k \in NotesOf(st, i) : StartsWith(st.notes[k].content, kind)}

\* the staged additions of a note of a kind to item i
Added(i, kind) ==
    {k \in 1..Len(queue) :
        /\ queue[k].type = "note_add"
        /\ queue[k].item_id = state.items[i].id
        /\ StartsWith(queue[k].args, kind)}

\* every note of old is a note of new, of the same item
Kept(old, new) ==
    \A k \in 1..Len(old) :
        \E j \in 1..Len(new) :
            new[j].id = old[k].id /\ new[j].item_id = old[k].item_id

\* C16: a processed habit item gets a note of each kind it lacks, created
\* with the zero text, and keeps the one it has; so from at most one note of
\* each kind it has exactly one of each after every committed run, and no
\* note is deleted.
C16_LazyNotes ==
    /\ \A i \in HabitItems, kind \in Kinds :
        /\ Processed =>
            /\ Cardinality(OfKind(state, i, kind)) = 1
            /\ Cardinality(Added(i, kind)) =
                   IF OfKind(fetched, i, kind) = {} THEN 1 ELSE 0
            /\ \A k \in Added(i, kind) : queue[k].args = ZeroText(kind)
            /\ OfKind(fetched, i, kind) \subseteq OfKind(state, i, kind)
        /\ (pc = "idle" /\ commits = 1) =>
               Cardinality(OfKind(remote, i, kind)) = 1
    /\ Kept(fetched.notes, state.notes)
    /\ (pc = "idle" /\ commits = 1) => Kept(prev.notes, remote.notes)

C16_Witness ==
    /\ Processed
    /\ Len(fetched.notes) = 1
    /\ Added(1, SummaryPrefix) = {}
    /\ Cardinality(Added(1, WeeklyPrefix)) = 1
    /\ Cardinality(Added(1, StreakPrefix)) = 1
    /\ Len(state.notes) = 3

\* the items that do not carry the habit label
OtherItems ==
    {i \in 1..Len(state.items) : habit_label_id \notin state.items[i].labels}

\* the notes of st that belong to item i
NoteSet(st, i) == {st.notes[k] : k \in NotesOf(st, i)}

\* C17: in any run, an item without the habit label keeps its content, its
\* due date and its notes, locally and on the service, and no command is
\* staged for it, so no note is created for it.
C17_OnlyHabits ==
    (runs > 0 /\ pc \in {"ready", "idle"}) =>
        \A i \in OtherItems :
            /\ state.items[i] = fetched.items[i]
            /\ remote.items[i] = fetched.items[i]
            /\ NoteSet(state, i) = NoteSet(fetched, i)
            /\ NoteSet(remote, i) = NoteSet(fetched, i)
            /\ \A k \in 1..Len(queue) :
                   queue[k].item_id # state.items[i].id

C17_Witness ==
    /\ pc = "idle"
    /\ commits = 1
    /\ OtherItems = {2}
    /\ Len(habits) = 2
    /\ Len(remote.notes) = 6
    /\ remote.items[2].content = MilkTitle

\* C18: after a completed run the due date of every processed habit item
\* contains today's date; so in a second run on the same date, with nothing
\* changed on the service in between, every habit item is a hit, and an item
\* the first run counted as a miss, not on a day off, ends the second run
\* with Streak 1, Summary completed 1 higher and Summary total 2 higher than
\* before the first run.
C18_MissThenHit ==
    \A i \in HabitItems :
        /\ (pc = "idle" /\ commits = 1) =>
               Contains(remote.items[i].due.date, today)
        /\ (Processed /\ prev.n = 1) =>
            /\ Hit(i)
            /\ (i \notin prev.hit /\ ~off_day) =>
                /\ StreakOf(state, i) = StreakText(1)
                /\ Completed(SummaryOf(state, i))
                       = Completed(SummaryOf(Before, i)) + 1
                /\ Total(SummaryOf(state, i))
                       = Total(SummaryOf(Before, i)) + 2

C18_Witness ==
    /\ Processed /\ prev.n = 1 /\ ~off_day /\ 1 \notin prev.hit
    /\ StreakOf(Before, 1) = StreakText(5)
    /\ StreakOf(state, 1) = StreakText(1)
    /\ SummaryOf(Before, 1) = SummaryText(3, 4, 75)
    /\ SummaryOf(state, 1) = SummaryText(4, 6, 66)

\* the three counters of item i in st agree
Consistent(st, i) ==
    /\ Count(StreakOf(st, i)) <= Completed(SummaryOf(st, i))
    /\ Completed(WeeklyOf(st, i)) <= Completed(SummaryOf(st, i))
    /\ Total(WeeklyOf(st, i)) <= Total(SummaryOf(st, i))

\* C19: from the zero notes, whatever the runs were, every habit item has,
\* locally and on the service, Streak count <= Summary completed, Weekly
\* completed <= Summary completed and Weekly total <= Summary total.
C19_CrossCounters ==
    \A i \in 1..Len(remote.items) :
        Consistent(remote, i) /\ Consistent(state, i)

\* the step of C19, from any counts: a run keeps counters that agree
C19_Preserved ==
    \A i \in 1..Len(remote.items) :
        Consistent(fetched, i) => Consistent(state, i) /\ Consistent(remote, i)

C19_Witness ==
    /\ pc = "idle"
    /\ commits = 1
    /\ StreakOf(remote, 1) = StreakText(1)
    /\ SummaryOf(remote, 1) = SummaryText(2, 3, 66)
    /\ WeeklyOf(remote, 1) = WeeklyText(1, 2)

\* the staged updates of item i's Streak note
StreakUpdates(i) ==
    {k \in Staged("note_update", i) : StartsWith(queue[k].args, StreakPrefix)}

\* item i's content is its title and the Streak text of st
InSync(st, i) ==
    st.items[i].content = Title(i) \o Separator \o StreakOf(st, i)

=============================================================================
